---- MODULE Spec2Model ----
(***************************************************************************)
(* Model of the project-database CGI layer: the validators of valutils.py, *)
(* the string helpers of strutils.py and the edit handler of               *)
(* performeditproject.py.                                                  *)
(*                                                                         *)
(* Python strings are sequences of one-character strings, so that          *)
(* lower(), split(), endswith(), count() and int() are computed and not    *)
(* assumed.  Every validator returns the record                            *)
(*     [ok |-> is_ok, msgs |-> status_messages, calls |-> ...]             *)
(* where calls is the sequence of the functions it called, in call order.  *)
(***************************************************************************)
EXTENDS Integers, Sequences, FiniteSets, TLC

(***************************************************************************)
(* Bounds of the model.                                                    *)
(***************************************************************************)
\* project ids the storage may have assigned are 0..MaxId
MaxId == 1
\* a submitted contact list has at most MaxContacts entries
MaxContacts == 2

(***************************************************************************)
(* Python string primitives.                                               *)
(***************************************************************************)
Uppers == <<"A", "B", "C", "D", "E", "F", "G", "H", "I", "J", "K", "L", "M",
            "N", "O", "P", "Q", "R", "S", "T", "U", "V", "W", "X", "Y", "Z">>
Lowers == <<"a", "b", "c", "d", "e", "f", "g", "h", "i", "j", "k", "l", "m",
            "n", "o", "p", "q", "r", "s", "t", "u", "v", "w", "x", "y", "z">>
Digits == <<"0", "1", "2", "3", "4", "5", "6", "7", "8", "9">>
Whitespace == {" ", "\t", "\n"}

Range(s) == {s[i] : i \in 1..Len(s)}

lower_char(c) ==
    IF c \in Range(Uppers)
    THEN Lowers[CHOOSE i \in 1..Len(Uppers) : Uppers[i] = c]
    ELSE c

\* str.lower()
lower(s) == [i \in 1..Len(s) |-> lower_char(s[i])]

RECURSIVE split_from(_, _, _)
split_from(s, i, word) ==
    IF i > Len(s)
    THEN (IF word = <<>> THEN <<>> ELSE <<word>>)
    ELSE IF s[i] \in Whitespace
         THEN (IF word = <<>> THEN <<>> ELSE <<word>>) \o split_from(s, i + 1, <<>>)
         ELSE split_from(s, i + 1, Append(word, s[i]))

\* str.split() with no separator: the maximal runs of non-whitespace
split(s) == split_from(s, 1, <<>>)

\* str.endswith(suffix)
endswith(s, suffix) ==
    /\ Len(s) >= Len(suffix)
    /\ SubSeq(s, Len(s) - Len(suffix) + 1, Len(s)) = suffix

\* str.count(c) for a one-character c
count(s, c) == Cardinality({i \in 1..Len(s) : s[i] = c})

RECURSIVE strip(_)
\* str.strip()
strip(s) ==
    IF s = <<>> THEN s
    ELSE IF s[1] \in Whitespace THEN strip(Tail(s))
    ELSE IF s[Len(s)] \in Whitespace THEN strip(SubSeq(s, 1, Len(s) - 1))
    ELSE s

digit_value(c) == (CHOOSE i \in 1..Len(Digits) : Digits[i] = c) - 1

\* the digits (and single underscores between them) of an int literal
int_body(s) ==
    LET t == strip(s)
    IN  IF t # <<>> /\ t[1] \in {"+", "-"} THEN Tail(t) ELSE t

\* int(s) does not raise ValueError
is_int_literal(s) ==
    LET b == int_body(s)
    IN  /\ b # <<>>
        /\ \A i \in 1..Len(b) : b[i] \in Range(Digits) \cup {"_"}
        /\ b[1] # "_"
        /\ b[Len(b)] # "_"
        /\ \A i \in 1..(Len(b) - 1) : ~(b[i] = "_" /\ b[i + 1] = "_")

RECURSIVE digits_value(_, _)
digits_value(b, acc) ==
    IF b = <<>> THEN acc
    ELSE IF b[1] = "_" THEN digits_value(Tail(b), acc)
    ELSE digits_value(Tail(b), 10 * acc + digit_value(b[1]))

\* int(s), for s with is_int_literal(s)
int(s) ==
    LET t == strip(s)
        v == digits_value(int_body(s), 0)
    IN  IF t[1] = "-" THEN 0 - v ELSE v

RECURSIVE nat_to_decimal(_)
nat_to_decimal(n) ==
    IF n < 10 THEN <<Digits[n + 1]>>
    ELSE Append(nat_to_decimal(n \div 10), Digits[(n % 10) + 1])

\* '%d' % n
format_d(n) == IF n < 0 THEN <<"-">> \o nat_to_decimal(0 - n) ELSE nat_to_decimal(n)

(***************************************************************************)
(* strutils.py                                                             *)
(***************************************************************************)
MitSuffix == <<"@", "m", "i", "t", ".", "e", "d", "u">>

is_mit_email(email) == endswith(email, MitSuffix) /\ (count(email, "@") = 1)

\* The characters of a bare username: lower-case letters and digits.
UsernameChars == Range(Lowers) \cup Range(Digits)

\* Called by valutils.validate_project_contact_addresses; its definition is
\* not among the sources, and is taken from the specification: an address of
\* the bare form <username>@mit.edu.
is_plain_mit_email(email) ==
    /\ is_mit_email(email)
    /\ Len(email) > Len(MitSuffix)
    /\ \A i \in 1..(Len(email) - Len(MitSuffix)) : email[i] \in UsernameChars

\* strutils.html_listify: one <li> item per message, in order, inside <ul>
html_listify(items) == [i \in 1..Len(items) |-> [li |-> items[i]]]

(***************************************************************************)
(* Option values: Python's None is the empty set, a value v is {v}.        *)
(***************************************************************************)
None == {}
Some(v) == {v}
TheValue(opt) == CHOOSE v \in opt : TRUE

(***************************************************************************)
(* Status messages: the format string and its arguments.                   *)
(***************************************************************************)
Msg(text, args) == [text |-> text, args |-> args]

\* what a validator returns, with the calls it made
Ret(ok, msgs, calls) == [ok |-> ok, msgs |-> msgs, calls |-> calls]

\* is_ok = True; status_messages = [] at the top of the validator name
Start(name) == Ret(TRUE, <<>>, <<name>>)

\* is_ok &= check_ok; status_messages.extend(check_msgs)
Extend(acc, check) ==
    Ret(acc.ok /\ check.ok, acc.msgs \o check.msgs, acc.calls \o check.calls)

\* a call of something that is no validator
Calling(acc, name) == Ret(acc.ok, acc.msgs, Append(acc.calls, name))

(***************************************************************************)
(* Sample strings.                                                         *)
(***************************************************************************)
NameFoo == <<"F", "o", "o">>
NameFooLower == <<"f", "o", "o">>
NameBar == <<"b", "a", "r">>
NameBaz == <<"b", "a", "z">>
NameEmpty == <<>>

TextNoWords == <<" ">>
TextTwoWords == <<"a", " ", "b">>
TextThreeWords == <<" ", "a", " ", "b", "\n", "\t", "c", " ">>

\* alice@mit.edu style
EmailPlain == <<"a", "l", "@", "m", "i", "t", ".", "e", "d", "u">>
\* an alias at the institutional domain
EmailAlias == <<"a", "-", "l", "@", "m", "i", "t", ".", "e", "d", "u">>
\* two @ signs, ending in the institutional domain
EmailTwoAt == <<"a", "@", "x", "@", "m", "i", "t", ".", "e", "d", "u">>
\* another domain
EmailOther == <<"a", "@", "x", ".", "e", "d", "u">>
\* the domain alone
EmailNoUser == MitSuffix

(***************************************************************************)
(* Storage (module db, an external collaborator): the rows of the          *)
(* projects table.                                                         *)
(***************************************************************************)
VARIABLES projects

Ids == 0..MaxId
StoredNames == {NameFoo, NameBar}
Rows == [id : Ids, name : StoredNames]

\* ids are assigned by the storage, names are unique ignoring case
Storages ==
    {S \in SUBSET Rows :
        \A r1, r2 \in S :
            (r1.id = r2.id \/ lower(r1.name) = lower(r2.name)) => r1 = r2}

\* db.get_project(id) -> records
db_get_project(id) == {r \in projects : r.id = id}

\* db.get_project_id(name) -> id | None, by the lookup-normalized name
db_get_project_id(name) ==
    LET found == {r.id : r \in {q \in projects : lower(q.name) = lower(name)}}
    IN  IF found = {} THEN None ELSE Some(CHOOSE i \in found : TRUE)

\* db.get_project_name(id) -> name, None when there is no such project;
\* the id comes as the form's string
db_get_project_name(project_id) ==
    LET found == {r.name : r \in db_get_project(int(project_id))}
    IN  IF found = {} THEN None ELSE Some(CHOOSE n \in found : TRUE)

\* Python truth value of an id | None
truthy_id(opt) == opt # None /\ TheValue(opt) # 0

(***************************************************************************)
(* valutils.py: the single checks.  The answer of authutils.can_add,       *)
(* can_edit or can_approve for the current user is the parameter can.      *)
(***************************************************************************)
validate_add_permission(can) ==
    Ret(can,
        IF can THEN <<>>
        ELSE <<Msg("User is not authorized to add projects!", <<>>)>>,
        <<"validate_add_permission">>)

validate_project_name_text(name) ==
    LET name_ok == Len(name) >= 1
    IN  Ret(name_ok,
            IF name_ok THEN <<>>
            ELSE <<Msg("Project name must be non-empty!", <<>>)>>,
            <<"validate_project_name_text">>)

validate_project_name_available(name) ==
    LET project_id == db_get_project_id(name)
        calls == <<"validate_project_name_available", "db.get_project_id">>
    IN  IF truthy_id(project_id)
        THEN Ret(FALSE,
                 <<Msg("A project with name \"%s\" already exists!", <<name>>)>>,
                 calls)
        ELSE Ret(TRUE, <<>>, calls)

\* validate_project_name comparing the names without lower()
validate_project_name_case_sensitive(name, previous_name) ==
    LET text == Extend(Start("validate_project_name"), validate_project_name_text(name))
    IN  IF (previous_name = None) \/ (name # TheValue(previous_name))
        THEN Extend(text, validate_project_name_available(name))
        ELSE text

validate_project_name(name, previous_name) ==
    LET text == Extend(Start("validate_project_name"), validate_project_name_text(name))
    IN  IF (previous_name = None) \/ (lower(name) # lower(TheValue(previous_name)))
        THEN Extend(text, validate_project_name_available(name))
        ELSE text

validate_project_description(description) ==
    LET description_ok == Len(split(description)) >= 3
    IN  Ret(description_ok,
            IF description_ok THEN <<>>
            ELSE <<Msg("Project description must have at least three words!", <<>>)>>,
            <<"validate_project_description">>)

validate_project_contacts_nonempty(contacts) ==
    LET is_ok == Len(contacts) >= 1
    IN  Ret(is_ok,
            IF is_ok THEN <<>>
            ELSE <<Msg("There must be at least one contact!", <<>>)>>,
            <<"validate_project_contacts_nonempty">>)

PlainMitMessage ==
    Msg("At least one contact must have an email address of the form \"<username>@mit.edu\" (otherwise no contacts will be able to edit project info).",
        <<>>)

RECURSIVE not_mit_messages(_)
\* the messages appended inside the loop over the contacts
not_mit_messages(contacts) ==
    IF contacts = <<>> THEN <<>>
    ELSE (IF ~is_mit_email(contacts[1].email)
          THEN <<Msg("\"%s\" is not an mit.edu email address!", <<contacts[1].email>>)>>
          ELSE <<>>) \o not_mit_messages(Tail(contacts))

\* validate_project_contact_addresses testing is_mit_email where it should
\* test is_plain_mit_email
validate_project_contact_addresses_any_mit(contacts) ==
    LET loop_msgs == not_mit_messages(contacts)
        contains_plain_mit ==
            \E i \in 1..Len(contacts) : is_mit_email(contacts[i].email)
    IN  Ret((loop_msgs = <<>>) /\ contains_plain_mit,
            loop_msgs \o (IF contains_plain_mit THEN <<>> ELSE <<PlainMitMessage>>),
            <<"validate_project_contact_addresses">>)

validate_project_contact_addresses(contacts) ==
    LET loop_msgs == not_mit_messages(contacts)
        contains_plain_mit ==
            \E i \in 1..Len(contacts) : is_plain_mit_email(contacts[i].email)
    IN  Ret((loop_msgs = <<>>) /\ contains_plain_mit,
            loop_msgs \o (IF contains_plain_mit THEN <<>> ELSE <<PlainMitMessage>>),
            <<"validate_project_contact_addresses">>)

\* validate_project_contacts running the address check whatever the first gave
validate_project_contacts_always_addresses(contacts) ==
    Extend(Extend(Start("validate_project_contacts"),
                  validate_project_contacts_nonempty(contacts)),
           validate_project_contact_addresses(contacts))

validate_project_contacts(contacts) ==
    LET nonempty == Extend(Start("validate_project_contacts"),
                           validate_project_contacts_nonempty(contacts))
    IN  IF nonempty.ok
        THEN Extend(nonempty, validate_project_contact_addresses(contacts))
        ELSE nonempty

\* validate_project_roles failing without a message
validate_project_roles_no_message(roles) ==
    Ret(\A i \in 1..Len(roles) :
            ~((Len(roles[i].role) = 0) \/ (Len(roles[i].description) = 0)),
        <<>>,
        <<"validate_project_roles">>)

validate_project_roles(roles) ==
    LET is_ok ==
            \A i \in 1..Len(roles) :
                ~((Len(roles[i].role) = 0) \/ (Len(roles[i].description) = 0))
    IN  Ret(is_ok,
            IF is_ok THEN <<>>
            ELSE <<Msg("Each role must have a name and a description!", <<>>)>>,
            <<"validate_project_roles">>)

validate_edit_permission(can) ==
    IF can
    THEN Ret(TRUE, <<>>, <<"validate_edit_permission">>)
    ELSE Ret(FALSE, <<Msg("User is not authorized to edit this project!", <<>>)>>,
             <<"validate_edit_permission">>)

validate_approval_permission(can) ==
    Ret(can,
        IF can THEN <<>>
        ELSE <<Msg("User is not authorized to approve projects!", <<>>)>>,
        <<"validate_approval_permission">>)

ActionApproved == <<"a", "p", "p", "r", "o", "v", "e", "d">>
ActionRejected == <<"r", "e", "j", "e", "c", "t", "e", "d">>
ApprovalActions == {ActionApproved, ActionRejected}

validate_approval_action(approval_action) ==
    LET is_ok == approval_action \in ApprovalActions
    IN  Ret(is_ok,
            IF is_ok THEN <<>>
            ELSE <<Msg("\"%s\" is not a valid approval action!", <<approval_action>>)>>,
            <<"validate_approval_action">>)

\* validate_approval_comments asking for two words
validate_approval_comments_two_words(approval_action, approver_comments) ==
    LET is_ok ==
            IF approval_action = ActionRejected
            THEN Len(split(approver_comments)) >= 2
            ELSE TRUE
    IN  Ret(is_ok,
            IF is_ok THEN <<>>
            ELSE <<Msg("Comments must have at least three words when rejecting a project!", <<>>)>>,
            <<"validate_approval_comments">>)

validate_approval_comments(approval_action, approver_comments) ==
    LET is_ok ==
            IF approval_action = ActionRejected
            THEN Len(split(approver_comments)) >= 3
            ELSE TRUE
    IN  Ret(is_ok,
            IF is_ok THEN <<>>
            ELSE <<Msg("Comments must have at least three words when rejecting a project!", <<>>)>>,
            <<"validate_approval_comments">>)

\* validate_project_id_is_int quoting nothing in its message
validate_project_id_is_int_bare_message(project_id) ==
    IF is_int_literal(project_id)
    THEN Ret(TRUE, <<>>, <<"validate_project_id_is_int">>)
    ELSE Ret(FALSE, <<Msg("\"%s\" is not a valid project ID!", <<>>)>>,
             <<"validate_project_id_is_int">>)

validate_project_id_is_int(project_id) ==
    IF is_int_literal(project_id)
    THEN Ret(TRUE, <<>>, <<"validate_project_id_is_int">>)
    ELSE Ret(FALSE, <<Msg("\"%s\" is not a valid project ID!", <<project_id>>)>>,
             <<"validate_project_id_is_int">>)

validate_project_id_exists(project_id) ==
    LET id == int(project_id)
        project_info == db_get_project(id)
        n == Cardinality(project_info)
        calls == <<"validate_project_id_exists", "db.get_project">>
    IN  IF n = 0
        THEN Ret(FALSE,
                 <<Msg("There is no project with id \"%d\"!", <<format_d(id)>>)>>,
                 calls)
        ELSE IF n = 1
        THEN Ret(TRUE, <<>>, calls)
        ELSE Ret(FALSE,
                 <<Msg("There are %d projects with id \"%d\"!",
                       <<format_d(n), format_d(id)>>)>>,
                 calls)

(***************************************************************************)
(* valutils.py: the composite validators.                                  *)
(***************************************************************************)
\* validate_project_info returning at the first failed check
validate_project_info_stops_at_name(project_info, previous_name) ==
    LET name == Extend(Start("validate_project_info"),
                       validate_project_name(project_info.name, previous_name))
    IN  IF ~name.ok
        THEN name
        ELSE Extend(Extend(Extend(name,
                 validate_project_description(project_info.description)),
                 validate_project_contacts(project_info.contacts)),
                 validate_project_roles(project_info.roles))

validate_project_info(project_info, previous_name) ==
    Extend(Extend(Extend(Extend(Start("validate_project_info"),
        validate_project_name(project_info.name, previous_name)),
        validate_project_description(project_info.description)),
        validate_project_contacts(project_info.contacts)),
        validate_project_roles(project_info.roles))

validate_add_project(project_info, can) ==
    Extend(Extend(Start("validate_add_project"),
        validate_add_permission(can)),
        validate_project_info(project_info, None))

validate_edit_project(project_info, project_id, can) ==
    Extend(Calling(Extend(Start("validate_edit_project"),
        validate_edit_permission(can)),
        "db.get_project_name"),
        validate_project_info(project_info, db_get_project_name(project_id)))

\* action_ok and action_msgs are computed and then used by nothing
validate_approve_project(project_info, project_id, approval_action, approver_comments, can) ==
    Extend(Calling(Extend(Calling(Extend(Start("validate_approve_project"),
        validate_approval_permission(can)),
        "db.get_project_name"),
        validate_project_info(project_info, db_get_project_name(project_id))),
        "validate_approval_action"),
        validate_approval_comments(approval_action, approver_comments))

validate_project_id(project_id) ==
    LET is_int == Extend(Start("validate_project_id"),
                         validate_project_id_is_int(project_id))
    IN  IF is_int.ok
        THEN Extend(is_int, validate_project_id_exists(project_id))
        ELSE is_int

(***************************************************************************)
(* performeditproject.py                                                   *)
(***************************************************************************)
\* what format_exc() gives for the exception update_project raised
update_failed_message(exc) ==
    Msg("update_project failed with the following exception:\n%s", <<exc>>)

\* the validation chain without validate_edit_project
main_validation_id_only(project_info, project_id, can_edit) ==
    validate_project_id(project_id)

\* main(), the validation chain: validate_project_id and, when it passes,
\* validate_edit_project, whose result replaces the first
main_validation(project_info, project_id, can_edit) ==
    LET id == validate_project_id(project_id)
    IN  IF id.ok
        THEN Extend(Ret(TRUE, <<>>, id.calls),
                    validate_edit_project(project_info, project_id, can_edit))
        ELSE id

SuccessPage == [kind |-> "success", title |-> "Edit Project", list |-> <<>>]
FailurePage(status_messages) ==
    [kind |-> "failure", title |-> "Edit Project", list |-> html_listify(status_messages)]

\* what main() leaves: is_ok, status_messages, the update_project
\* invocations, project_info['project_id'] and the page printed
Run(is_ok, status_messages, calls, invocations, id_set) ==
    [is_ok |-> is_ok, status_messages |-> status_messages, calls |-> calls,
     updated |-> invocations, info_project_id |-> id_set,
     page |-> IF is_ok THEN SuccessPage ELSE FailurePage(status_messages)]

\* the try block with project_info['project_id'] set before update_project
\* is called
main_try_sets_id_first(validated, project_info, project_id, exc) ==
    IF ~validated.ok
    THEN Run(FALSE, validated.msgs, validated.calls, <<>>, None)
    ELSE IF exc = None
    THEN Run(TRUE, validated.msgs, Append(validated.calls, "update_project"),
             <<[project_info |-> project_info, project_id |-> project_id]>>,
             Some(project_id))
    ELSE Run(FALSE, <<update_failed_message(TheValue(exc))>>,
             Append(validated.calls, "update_project"),
             <<[project_info |-> project_info, project_id |-> project_id]>>,
             Some(project_id))

\* main() from `if is_ok: try:` on: exc is the exception update_project
\* raises, None when it returns
main_try(validated, project_info, project_id, exc) ==
    IF ~validated.ok
    THEN Run(FALSE, validated.msgs, validated.calls, <<>>, None)
    ELSE IF exc = None
    THEN Run(TRUE, validated.msgs, Append(validated.calls, "update_project"),
             <<[project_info |-> project_info, project_id |-> project_id]>>,
             Some(project_id))
    ELSE Run(FALSE, <<update_failed_message(TheValue(exc))>>,
             Append(validated.calls, "update_project"),
             <<[project_info |-> project_info, project_id |-> project_id]>>,
             None)

\* main(): the form's project_info and project_id, the answer of
\* authutils.can_edit, and the outcome of update_project
main(project_info, project_id, can_edit, exc) ==
    main_try(main_validation(project_info, project_id, can_edit),
             project_info, project_id, exc)

(***************************************************************************)
(* mail.py                                                                 *)
(***************************************************************************)
\* "sipb-projectdb-approvers@mit.edu"
APPROVERS_LIST ==
    <<"s", "i", "p", "b", "-", "p", "r", "o", "j", "e", "c", "t", "d", "b", "-", "a", "p", "p", "r", "o", "v", "e", "r", "s", "@", "m", "i", "t", ".", "e", "d", "u">>
\* "sipb-projectdb-bot@mit.edu"
SERVICE_EMAIL ==
    <<"s", "i", "p", "b", "-", "p", "r", "o", "j", "e", "c", "t", "d", "b", "-", "b", "o", "t", "@", "m", "i", "t", ".", "e", "d", "u">>
\* the listing's URL, around creds.user
ACTIVE_PROJECTS_URL ==
    <<"https://", "{creds.user}", ".scripts.mit.edu:444/projectlist.py?filter_by=active">>

\* a Python value that is a str, a list of str, or something else
StrValue(s) == [type |-> "str", str |-> s, list |-> <<>>]
ListValue(l) == [type |-> "list", str |-> <<>>, list |-> l]

RECURSIVE join(_, _)
\* sep.join(items)
join(sep, items) ==
    IF items = <<>> THEN <<>>
    ELSE IF Len(items) = 1 THEN items[1]
    ELSE items[1] \o sep \o join(sep, Tail(items))

\* the str of None
NoneText == <<"N", "o", "n", "e">>

\* one call of SMTP.sendmail: the To header, the addresses the message is
\* handed to, the sender, the subject and the body
Email(to_header, to_addrs, sender, subject, body) ==
    [to_header |-> to_header, to_addrs |-> to_addrs, sender |-> sender,
     subject |-> subject, body |-> body]

\* send(): the emails handed to the SMTP server, and whether it raised
send(recipients, sender, subject, message) ==
    IF recipients.type = "str"
    THEN [raised |-> FALSE,
          sent |-> <<Email(recipients.str, <<recipients.str>>, sender, subject, message)>>]
    ELSE IF recipients.type = "list"
    THEN [raised |-> FALSE,
          sent |-> <<Email(join(<<",">>, recipients.list), recipients.list,
                           sender, subject, message)>>]
    ELSE [raised |-> TRUE, sent |-> <<>>]

\* the email of every contact, in list order
contact_emails(contacts) == [i \in 1..Len(contacts) |-> contacts[i].email]

\* creator is what db.get_project_creator(project_info['project_id']) gives,
\* time what datetime.now() gives
send_to_approvers(project_info, creator, time) ==
    send(StrValue(APPROVERS_LIST), SERVICE_EMAIL,
         Msg("Project '{name}' needs approval", <<project_info.name>>),
         Msg("Dear SIPB Project Approvers, Project '{name}' has been submitted to the database by {creator} and is ready for review. This email was generated as of {time}.",
             <<project_info.name, creator, time>>))

\* send_approve_message formatting the comment as it comes
send_approve_message_raw_comment(project_info, approver_kerberos, approver_comments, creator, time) ==
    send(ListValue(<<creator>> \o contact_emails(project_info.contacts)), SERVICE_EMAIL,
         Msg("Project {name} has been approved", <<project_info.name>>),
         Msg("Dear {name}'s project team, Congratulations! Your project submission to the SIPB projects website has been reviewed and approved by {approver}, with the following comment: {comment} You can now find your project on the list of active projects at: {url} This email was generated as of {time}.",
             <<project_info.name, approver_kerberos, approver_comments,
               ACTIVE_PROJECTS_URL, time>>))

send_approve_message(project_info, approver_kerberos, approver_comments, creator, time) ==
    send(ListValue(<<creator>> \o contact_emails(project_info.contacts)), SERVICE_EMAIL,
         Msg("Project {name} has been approved", <<project_info.name>>),
         Msg("Dear {name}'s project team, Congratulations! Your project submission to the SIPB projects website has been reviewed and approved by {approver}, with the following comment: {comment} You can now find your project on the list of active projects at: {url} This email was generated as of {time}.",
             <<project_info.name, approver_kerberos,
               IF approver_comments # <<>> THEN approver_comments ELSE NoneText,
               ACTIVE_PROJECTS_URL, time>>))

send_reject_message(project_info, approver_kerberos, approver_comments, creator, time) ==
    send(ListValue(<<creator>> \o contact_emails(project_info.contacts)), SERVICE_EMAIL,
         Msg("Project {name} has been rejected", <<project_info.name>>),
         Msg("Dear {name}'s project team, Unfortunately, your project submission to the SIPB projects website has been rejected by {approver} with the following comments: {comment} If relevant, please make the necessary changes to your project submission and resubmit for another review. This email was generated as of {time}.",
             <<project_info.name, approver_kerberos, approver_comments, time>>))

(***************************************************************************)
(* The requests.                                                           *)
(***************************************************************************)
SeqsUpTo(S, n) == UNION {[1..k -> S] : k \in 0..n}

Contact(email) == [name |-> <<"A">>, email |-> email]
FormContacts == {Contact(EmailPlain), Contact(EmailOther)}
AllContacts ==
    {Contact(e) : e \in {EmailPlain, EmailAlias, EmailTwoAt, EmailOther, EmailNoUser}}

RoleGood == [role |-> <<"L">>, description |-> <<"r">>]
RoleNoName == [role |-> <<>>, description |-> <<"r">>]
RoleNoDescription == [role |-> <<"L">>, description |-> <<>>]
FormRoles == {<<>>, <<RoleGood>>, <<RoleGood, RoleNoDescription>>, <<RoleNoName>>}

FormNames == {NameEmpty, NameFooLower, NameBar, NameBaz}
FormTexts == {TextNoWords, TextTwoWords, TextThreeWords}
FormComments == {<<>>, TextTwoWords, TextThreeWords}

ProjectInfos ==
    [name : FormNames,
     description : {TextTwoWords, TextThreeWords},
     contacts : SeqsUpTo(FormContacts, MaxContacts),
     roles : FormRoles]

\* project ids as the form gives them
ExistingStyleIds == {format_d(i) : i \in Ids}
IntProjectIds == ExistingStyleIds \cup {<<"7">>, <<" ", "+", "0", "1">>}
NonIntProjectIds == {<<>>, <<"x", "1">>, <<"1", ".", "0">>}
FormProjectIds == IntProjectIds \cup NonIntProjectIds

ActionDeleted == <<"d", "e", "l", "e", "t", "e", "d">>
FormActions == ApprovalActions \cup {ActionDeleted}

ExceptionTexts == {<<"I", "O", "E", "r", "r", "o", "r">>, <<"K", "e", "y", "E", "r", "r", "o", "r">>}

\* what the notifications are sent about
MailContacts == {Contact(EmailPlain), Contact(EmailAlias), Contact(EmailOther)}
MailInfos ==
    [name : StoredNames,
     description : {TextThreeWords},
     contacts : SeqsUpTo(MailContacts, MaxContacts),
     roles : {<<>>}]
Kerberos == {<<"b", "o", "b">>, <<"a", "l">>}
Times == {<<"1", "2", ":", "0", "0">>}

NoInfo == [name |-> <<>>, description |-> <<>>, contacts |-> <<>>, roles |-> <<>>]
NoArgs ==
    [project_info |-> NoInfo, project_id |-> <<>>, approval_action |-> <<>>,
     approver_comments |-> <<>>, previous_name |-> None, can |-> FALSE, exc |-> None,
     creator |-> <<>>, approver_kerberos |-> <<>>, time |-> <<>>]
NoPage == [kind |-> "none", title |-> "", list |-> <<>>]

(***************************************************************************)
(* State: the storage, and the one request of a CGI invocation: what was   *)
(* called (call) with which inputs (args), what it returned (result), and  *)
(* for the edit handler the page printed, the invocations of               *)
(* update_project and project_info['project_id'].                          *)
(***************************************************************************)
VARIABLES pc, call, args, result, page, updated, info_project_id

\* the status column of the projects table, by project id
VARIABLES status

\* the emails handed to the SMTP server, in order
VARIABLES outbox

Statuses == {"pending", "active", "rejected"}

vars == <<projects, status, outbox, pc, call, args, result, page, updated, info_project_id>>

Init ==
    /\ projects \in Storages
    \* a project is created in the pending state
    /\ status = [i \in {r.id : r \in projects} |-> "pending"]
    /\ outbox = <<>>
    /\ pc = "idle"
    /\ call = "none"
    /\ args = NoArgs
    /\ result = Ret(TRUE, <<>>, <<>>)
    /\ page = NoPage
    /\ updated = <<>>
    /\ info_project_id = None

\* a validator called on its own
Returns(name, a, r) ==
    /\ pc' = "done"
    /\ call' = name
    /\ args' = a
    /\ result' = r
    /\ UNCHANGED <<projects, status, outbox, page, updated, info_project_id>>

EditProject ==
    /\ pc = "idle"
    /\ \E project_info \in ProjectInfos, project_id \in FormProjectIds,
          can \in BOOLEAN, exc \in {None} \cup {Some(e) : e \in ExceptionTexts} :
        LET m == main(project_info, project_id, can, exc)
        IN  /\ args' = [NoArgs EXCEPT !.project_info = project_info,
                                      !.project_id = project_id,
                                      !.can = can, !.exc = exc]
            /\ result' = Ret(m.is_ok, m.status_messages, m.calls)
            /\ page' = m.page
            /\ updated' = m.updated
            /\ info_project_id' = m.info_project_id
    /\ pc' = "done"
    /\ call' = "main"
    \* update_project is a stub: the storage is left as it is
    /\ UNCHANGED <<projects, status, outbox>>

ValidateProjectId ==
    /\ pc = "idle"
    /\ \E project_id \in FormProjectIds :
        Returns("validate_project_id",
                [NoArgs EXCEPT !.project_id = project_id],
                validate_project_id(project_id))

ValidateProjectNameAvailable ==
    /\ pc = "idle"
    /\ \E name \in FormNames \cup StoredNames :
        Returns("validate_project_name_available",
                [NoArgs EXCEPT !.project_info.name = name],
                validate_project_name_available(name))

ValidateProjectContacts ==
    /\ pc = "idle"
    /\ \E contacts \in SeqsUpTo(AllContacts, MaxContacts) :
        Returns("validate_project_contacts",
                [NoArgs EXCEPT !.project_info.contacts = contacts],
                validate_project_contacts(contacts))

ValidateProjectContactAddresses ==
    /\ pc = "idle"
    /\ \E contacts \in SeqsUpTo(AllContacts, MaxContacts) \ {<<>>} :
        Returns("validate_project_contact_addresses",
                [NoArgs EXCEPT !.project_info.contacts = contacts],
                validate_project_contact_addresses(contacts))

ValidateApprovalComments ==
    /\ pc = "idle"
    /\ \E approval_action \in FormActions, approver_comments \in FormTexts \cup {<<>>} :
        Returns("validate_approval_comments",
                [NoArgs EXCEPT !.approval_action = approval_action,
                               !.approver_comments = approver_comments],
                validate_approval_comments(approval_action, approver_comments))

ValidateProjectInfo ==
    /\ pc = "idle"
    /\ \E project_info \in ProjectInfos,
       previous_name \in {None} \cup {Some(n) : n \in StoredNames} :
        Returns("validate_project_info",
                [NoArgs EXCEPT !.project_info = project_info,
                               !.previous_name = previous_name],
                validate_project_info(project_info, previous_name))

ValidateAddProject ==
    /\ pc = "idle"
    /\ \E project_info \in ProjectInfos, can \in BOOLEAN :
        Returns("validate_add_project",
                [NoArgs EXCEPT !.project_info = project_info, !.can = can],
                validate_add_project(project_info, can))

ValidateEditProject ==
    /\ pc = "idle"
    /\ \E project_info \in ProjectInfos, project_id \in ExistingStyleIds, can \in BOOLEAN :
        Returns("validate_edit_project",
                [NoArgs EXCEPT !.project_info = project_info,
                               !.project_id = project_id, !.can = can],
                validate_edit_project(project_info, project_id, can))

ValidateApproveProject ==
    /\ pc = "idle"
    /\ \E project_info \in ProjectInfos, project_id \in ExistingStyleIds,
       approval_action \in FormActions, approver_comments \in FormComments,
       can \in BOOLEAN :
        Returns("validate_approve_project",
                [NoArgs EXCEPT !.project_info = project_info,
                               !.project_id = project_id,
                               !.approval_action = approval_action,
                               !.approver_comments = approver_comments,
                               !.can = can],
                validate_approve_project(project_info, project_id, approval_action,
                                         approver_comments, can))

\* the single checks, each called on its own
ValidateAddPermission ==
    /\ pc = "idle"
    /\ \E can \in BOOLEAN :
        Returns("validate_add_permission",
                [NoArgs EXCEPT !.can = can],
                validate_add_permission(can))

ValidateProjectNameText ==
    /\ pc = "idle"
    /\ \E name \in FormNames :
        Returns("validate_project_name_text",
                [NoArgs EXCEPT !.project_info.name = name],
                validate_project_name_text(name))

ValidateProjectName ==
    /\ pc = "idle"
    /\ \E name \in FormNames \cup StoredNames, previous_name \in {None} \cup {Some(n) : n \in StoredNames} :
        Returns("validate_project_name",
                [NoArgs EXCEPT !.project_info.name = name, !.previous_name = previous_name],
                validate_project_name(name, previous_name))

ValidateProjectDescription ==
    /\ pc = "idle"
    /\ \E description \in FormTexts \cup {<<>>} :
        Returns("validate_project_description",
                [NoArgs EXCEPT !.project_info.description = description],
                validate_project_description(description))

ValidateProjectContactsNonempty ==
    /\ pc = "idle"
    /\ \E contacts \in SeqsUpTo(FormContacts, MaxContacts) :
        Returns("validate_project_contacts_nonempty",
                [NoArgs EXCEPT !.project_info.contacts = contacts],
                validate_project_contacts_nonempty(contacts))

ValidateProjectRoles ==
    /\ pc = "idle"
    /\ \E roles \in FormRoles :
        Returns("validate_project_roles",
                [NoArgs EXCEPT !.project_info.roles = roles],
                validate_project_roles(roles))

ValidateEditPermission ==
    /\ pc = "idle"
    /\ \E can \in BOOLEAN :
        Returns("validate_edit_permission",
                [NoArgs EXCEPT !.can = can],
                validate_edit_permission(can))

ValidateApprovalPermission ==
    /\ pc = "idle"
    /\ \E can \in BOOLEAN :
        Returns("validate_approval_permission",
                [NoArgs EXCEPT !.can = can],
                validate_approval_permission(can))

ValidateApprovalAction ==
    /\ pc = "idle"
    /\ \E approval_action \in FormActions :
        Returns("validate_approval_action",
                [NoArgs EXCEPT !.approval_action = approval_action],
                validate_approval_action(approval_action))

ValidateProjectIdIsInt ==
    /\ pc = "idle"
    /\ \E project_id \in FormProjectIds :
        Returns("validate_project_id_is_int",
                [NoArgs EXCEPT !.project_id = project_id],
                validate_project_id_is_int(project_id))

ValidateProjectIdExists ==
    /\ pc = "idle"
    /\ \E project_id \in IntProjectIds :
        Returns("validate_project_id_exists",
                [NoArgs EXCEPT !.project_id = project_id],
                validate_project_id_exists(project_id))

\* a notification function called on its own
Sends(name, a, s) ==
    /\ pc' = "done"
    /\ call' = name
    /\ args' = a
    /\ result' = Ret(~s.raised, <<>>, <<name, "db.get_project_creator", "send">>)
    /\ outbox' = outbox \o s.sent
    /\ UNCHANGED <<projects, status, page, updated, info_project_id>>

SendToApprovers ==
    /\ pc = "idle"
    /\ \E project_info \in MailInfos, project_id \in ExistingStyleIds,
          creator \in Kerberos, time \in Times :
        Sends("send_to_approvers",
              [NoArgs EXCEPT !.project_info = project_info, !.project_id = project_id,
                             !.creator = creator, !.time = time],
              send_to_approvers(project_info, creator, time))

SendApproveMessage ==
    /\ pc = "idle"
    /\ \E project_info \in MailInfos, project_id \in ExistingStyleIds,
          approver_kerberos \in Kerberos, approver_comments \in FormComments,
          creator \in Kerberos, time \in Times :
        Sends("send_approve_message",
              [NoArgs EXCEPT !.project_info = project_info, !.project_id = project_id,
                             !.approver_kerberos = approver_kerberos,
                             !.approver_comments = approver_comments,
                             !.creator = creator, !.time = time],
              send_approve_message(project_info, approver_kerberos, approver_comments,
                                   creator, time))

SendRejectMessage ==
    /\ pc = "idle"
    /\ \E project_info \in MailInfos, project_id \in ExistingStyleIds,
          approver_kerberos \in Kerberos, approver_comments \in FormComments,
          creator \in Kerberos, time \in Times :
        Sends("send_reject_message",
              [NoArgs EXCEPT !.project_info = project_info, !.project_id = project_id,
                             !.approver_kerberos = approver_kerberos,
                             !.approver_comments = approver_comments,
                             !.creator = creator, !.time = time],
              send_reject_message(project_info, approver_kerberos, approver_comments,
                                  creator, time))

Next ==
    \/ EditProject
    \/ ValidateProjectId
    \/ ValidateProjectNameAvailable
    \/ ValidateProjectContacts
    \/ ValidateProjectContactAddresses
    \/ ValidateApprovalComments
    \/ ValidateProjectInfo
    \/ ValidateAddProject
    \/ ValidateEditProject
    \/ ValidateApproveProject
    \/ SendToApprovers
    \/ SendApproveMessage
    \/ SendRejectMessage
    \/ ValidateAddPermission
    \/ ValidateProjectNameText
    \/ ValidateProjectName
    \/ ValidateProjectDescription
    \/ ValidateProjectContactsNonempty
    \/ ValidateProjectRoles
    \/ ValidateEditPermission
    \/ ValidateApprovalPermission
    \/ ValidateApprovalAction
    \/ ValidateProjectIdIsInt
    \/ ValidateProjectIdExists

Spec == Init /\ [][Next]_vars

(***************************************************************************)
(* The lifecycle: an approver's accept or reject of a pending project      *)
(* (the approval handler is not among the sources; this is the transition  *)
(* the specification gives it), followed by requests to the edit handler.  *)
(***************************************************************************)
ReviewProject ==
    /\ pc = "idle"
    /\ \E id \in DOMAIN status, approval_action \in ApprovalActions :
        /\ status[id] = "pending"
        /\ status' = [status EXCEPT ![id] = IF approval_action = ActionApproved
                                             THEN "active" ELSE "rejected"]
    /\ UNCHANGED <<projects, outbox, pc, call, args, result, page, updated, info_project_id>>

LifecycleNext ==
    \/ ReviewProject
    \/ EditProject

LifecycleSpec == Init /\ [][LifecycleNext]_vars

(***************************************************************************)
(* Properties.                                                             *)
(***************************************************************************)
Called(name) == name \in Range(result.calls)
HasMessage(text) == \E i \in 1..Len(result.msgs) : result.msgs[i].text = text

\* the previous name the edit and approve validators look up
StoredPreviousName == db_get_project_name(args.project_id)

WordCount(text) == Len(split(text))

\* C1: validate_approve_project returns is_ok = True only if the user can
\* approve, the project info is fully valid, the action is 'approved' or
\* 'rejected' and, when rejecting, the comment has at least 3 words.
C1_ApproveGuardNeedsAllFour ==
    (call = "validate_approve_project" /\ result.ok) =>
        /\ args.can
        /\ validate_project_info(args.project_info, StoredPreviousName).ok
        /\ args.approval_action \in {ActionApproved, ActionRejected}
        /\ (args.approval_action = ActionRejected
                => WordCount(args.approver_comments) >= 3)

\* the edit handler's two checks, stated on the request and the storage
EditIdPassed ==
    /\ args.project_id \in IntProjectIds
    /\ Cardinality({r \in projects : r.id = int(args.project_id)}) = 1
EditChecksPassed ==
    /\ EditIdPassed
    /\ args.can
    /\ validate_project_info(args.project_info, StoredPreviousName).ok

\* C2: in a run of the edit handler update_project is invoked only when
\* validate_project_id and then validate_edit_project passed; when either
\* fails, update_project is not invoked, project_info['project_id'] is not
\* set and the failure page is rendered.
C2_EditUpdatesOnlyWhenValidated ==
    call = "main" =>
        /\ (updated # <<>>) <=> EditChecksPassed
        /\ Len(updated) <= 1
        /\ ~EditChecksPassed =>
              /\ ~Called("update_project")
              /\ info_project_id = None
              /\ ~result.ok
              /\ page.kind = "failure"
        /\ page.kind = "success" => EditChecksPassed

C2_Witness ==
    /\ call = "main"
    /\ updated = <<[project_info |-> args.project_info, project_id |-> args.project_id]>>
    /\ page.kind = "success"

\* C2 (continued): no run of any operation changes the storage.
C2_NothingPersisted == [][projects' = projects]_vars

\* C3: validate_project_name_available(n) returns is_ok = False if and only
\* if the storage holds a project with that name, for every id the storage
\* can have assigned.
C3_NameUnavailableIffStored ==
    call = "validate_project_name_available" =>
        (~result.ok <=> db_get_project_id(args.project_info.name) # None)

\* C4: editing or approving a project with a name equal, ignoring case, to
\* its stored previous name does not run the availability check and gives no
\* 'already exists' message; with a name that differs ignoring case the
\* availability check runs against the storage.
C4_OwnNameExempt ==
    (/\ call \in {"validate_edit_project", "validate_approve_project"}
     /\ StoredPreviousName # None) =>
        LET same == lower(args.project_info.name) = lower(TheValue(StoredPreviousName))
        IN  /\ same =>
                /\ ~Called("validate_project_name_available")
                /\ ~Called("db.get_project_id")
                /\ ~HasMessage("A project with name \"%s\" already exists!")
            /\ ~same =>
                /\ Called("validate_project_name_available")
                /\ Called("db.get_project_id")

\* the submitted name differs from the stored one in case only, the project
\* has a non-zero id and another project exists
C4_Witness ==
    /\ call = "validate_edit_project"
    /\ StoredPreviousName = Some(NameFoo)
    /\ args.project_info.name = NameFooLower
    /\ int(args.project_id) # 0
    /\ Cardinality(projects) > 1
    /\ ~Called("validate_project_name_available")

\* C5: validate_project_contacts on an empty list returns is_ok = False with
\* the one message 'There must be at least one contact!', and the address
\* check is not run.
C5_EmptyContactsOneMessage ==
    (call = "validate_project_contacts" /\ args.project_info.contacts = <<>>) =>
        /\ ~result.ok
        /\ result.msgs = <<Msg("There must be at least one contact!", <<>>)>>
        /\ ~Called("validate_project_contact_addresses")

C5_Witness ==
    /\ call = "validate_project_contacts"
    /\ args.project_info.contacts = <<>>
    /\ Len(result.msgs) = 1

\* every address ends in '@mit.edu' and has exactly one '@'
AllInstitutional(contacts) ==
    \A i \in 1..Len(contacts) :
        /\ Len(contacts[i].email) >= 8
        /\ SubSeq(contacts[i].email, Len(contacts[i].email) - 7, Len(contacts[i].email))
               = <<"@", "m", "i", "t", ".", "e", "d", "u">>
        /\ Cardinality({k \in 1..Len(contacts[i].email) : contacts[i].email[k] = "@"}) = 1

SomeBare(contacts) ==
    \E i \in 1..Len(contacts) : is_plain_mit_email(contacts[i].email)

C7_RejectNeedsThreeWords ==
    /\ (call = "validate_approval_comments" /\ args.approval_action = ActionRejected) =>
          (result.ok <=> WordCount(args.approver_comments) >= 3)
    /\ (call = "validate_approval_comments" /\ args.approval_action = ActionApproved) =>
          result.ok
    /\ (/\ call = "validate_approve_project"
        /\ args.approval_action = ActionRejected
        /\ WordCount(args.approver_comments) < 3) =>
          /\ ~result.ok
          /\ HasMessage("Comments must have at least three words when rejecting a project!")

C7_Witness ==
    /\ call = "validate_approve_project"
    /\ args.approval_action = ActionRejected
    /\ args.approver_comments = <<>>
    /\ args.can
    /\ validate_project_info(args.project_info, StoredPreviousName).ok
    /\ ~result.ok

\* the sub-checks of a composite validator in check order: permission, name
\* text, name availability (when the name check runs it), description,
\* contacts, roles
SubChecks ==
    LET info == args.project_info
        permission ==
            IF call = "validate_add_project" THEN <<validate_add_permission(args.can)>>
            ELSE IF call = "validate_edit_project" THEN <<validate_edit_permission(args.can)>>
            ELSE <<>>
        available ==
            IF Called("validate_project_name_available")
            THEN <<validate_project_name_available(info.name)>>
            ELSE <<>>
    IN  permission
            \o <<validate_project_name_text(info.name)>>
            \o available
            \o <<validate_project_description(info.description),
                 validate_project_contacts(info.contacts),
                 validate_project_roles(info.roles)>>

RECURSIVE ConcatMsgs(_)
ConcatMsgs(checks) ==
    IF checks = <<>> THEN <<>> ELSE checks[1].msgs \o ConcatMsgs(Tail(checks))

\* C8: validate_project_info, validate_add_project and validate_edit_project
\* run the description, contacts and roles checks whatever the permission
\* and name checks gave; is_ok is the AND of the sub-checks and the messages
\* are the sub-checks' messages concatenated in check order.
C8_CompositeIsAndAndConcat ==
    call \in {"validate_project_info", "validate_add_project", "validate_edit_project"} =>
        /\ Called("validate_project_name_text")
        /\ Called("validate_project_description")
        /\ Called("validate_project_contacts")
        /\ Called("validate_project_roles")
        /\ call = "validate_add_project" => Called("validate_add_permission")
        /\ call = "validate_edit_project" => Called("validate_edit_permission")
        /\ result.ok <=> (\A i \in 1..Len(SubChecks) : SubChecks[i].ok)
        /\ result.msgs = ConcatMsgs(SubChecks)

\* permission, name text, description, contacts and roles all fail at once
C8_Witness ==
    /\ call = "validate_add_project"
    /\ ~args.can
    /\ args.project_info.name = NameEmpty
    /\ Len(result.msgs) = 5
    /\ result.msgs[1].text = "User is not authorized to add projects!"
    /\ result.msgs[5].text = "Each role must have a name and a description!"

\* C9: a project_id that is not interpretable as an integer makes
\* validate_project_id return is_ok = False with the one message
\* '"<id>" is not a valid project ID!' without the existence lookup; the edit
\* handler then renders the failure page without calling
\* validate_edit_project or db.get_project_name.
C9_NonIntegerIdRejected ==
    args.project_id \in NonIntProjectIds =>
        /\ call = "validate_project_id" =>
              /\ ~result.ok
              /\ result.msgs = <<Msg("\"%s\" is not a valid project ID!", <<args.project_id>>)>>
              /\ ~Called("validate_project_id_exists")
              /\ ~Called("db.get_project")
        /\ call = "main" =>
              /\ page.kind = "failure"
              /\ page.list = <<[li |-> Msg("\"%s\" is not a valid project ID!", <<args.project_id>>)]>>
              /\ ~Called("validate_edit_project")
              /\ ~Called("db.get_project_name")
              /\ ~Called("db.get_project")
              /\ updated = <<>>

C9_Witness ==
    /\ call = "main"
    /\ args.project_id = <<"1", ".", "0">>
    /\ page.kind = "failure"

\* C10: when validation passes and update_project raises, main catches it:
\* is_ok is False, the status messages are the one message carrying the
\* exception's text, project_info['project_id'] is not set and the failure
\* page is rendered.
C10_UpdateFailureCaught ==
    (call = "main" /\ EditChecksPassed /\ args.exc # None) =>
        /\ Called("update_project")
        /\ ~result.ok
        /\ Len(result.msgs) = 1
        /\ result.msgs[1].args = <<TheValue(args.exc)>>
        /\ info_project_id = None
        /\ page.kind = "failure"
        /\ page.list = <<[li |-> result.msgs[1]]>>

C10_Witness ==
    /\ call = "main"
    /\ updated # <<>>
    /\ args.exc # None
    /\ page.kind = "failure"

\* the status of the project the request names, None when there is none
RequestedStatus ==
    IF args.project_id \in IntProjectIds /\ int(args.project_id) \in DOMAIN status
    THEN Some(status[int(args.project_id)])
    ELSE None

\* C11: once a project is approved (status active), a run of the edit
\* handler for its id does not reach update_project, whatever the submitted
\* project info and whoever the current user is.
C11_NoEditOnceApproved ==
    (call = "main" /\ RequestedStatus = Some("active")) =>
        /\ updated = <<>>
        /\ ~Called("update_project")

\* the addresses of the request's contacts, in list order
RequestContactEmails ==
    [i \in 1..Len(args.project_info.contacts) |-> args.project_info.contacts[i].email]

\* C12: send_to_approvers sends exactly one email, to the approvers list and
\* nobody else; send_approve_message and send_reject_message each send
\* exactly one email whose recipients are the project creator followed by
\* the email of every contact in list order; the approval message carries
\* the approver's identity and the comment, or 'None' for an empty comment.
C12_NotificationRecipients ==
    /\ call = "send_to_approvers" =>
          /\ Len(outbox) = 1
          /\ outbox[1].to_addrs =
                 <<<<"s", "i", "p", "b", "-", "p", "r", "o", "j", "e", "c", "t", "d", "b",
                     "-", "a", "p", "p", "r", "o", "v", "e", "r", "s",
                     "@", "m", "i", "t", ".", "e", "d", "u">>>>
          /\ outbox[1].to_header = outbox[1].to_addrs[1]
    /\ call \in {"send_approve_message", "send_reject_message"} =>
          /\ Len(outbox) = 1
          /\ outbox[1].to_addrs = <<args.creator>> \o RequestContactEmails
          /\ Len(outbox[1].to_addrs) = 1 + Len(args.project_info.contacts)
    /\ call = "send_approve_message" =>
          /\ outbox[1].body.args[2] = args.approver_kerberos
          /\ outbox[1].body.args[3] =
                 (IF args.approver_comments = <<>>
                  THEN <<"N", "o", "n", "e">>
                  ELSE args.approver_comments)

\* an approval with an empty comment, sent to the creator and two contacts
C12_Witness ==
    /\ call = "send_approve_message"
    /\ args.approver_comments = <<>>
    /\ Len(args.project_info.contacts) = 2
    /\ Len(outbox) = 1
    /\ Len(outbox[1].to_addrs) = 3

\* the validators of valutils
Validators ==
    {"validate_add_permission", "validate_project_name_text",
     "validate_project_name_available", "validate_project_name",
     "validate_project_description", "validate_project_contacts_nonempty",
     "validate_project_contact_addresses", "validate_project_contacts",
     "validate_project_roles", "validate_project_info", "validate_add_project",
     "validate_edit_permission", "validate_edit_project",
     "validate_approval_permission", "validate_approval_action",
     "validate_approval_comments", "validate_approve_project",
     "validate_project_id_is_int", "validate_project_id_exists",
     "validate_project_id"}

\* C13: every validator of valutils returns is_ok = True exactly when the
\* message list it returns is empty, whatever the inputs, the storage and
\* the authorization answers.
C13_OkIffNoMessages ==
    call \in Validators => (result.ok <=> result.msgs = <<>>)

\* the roles check failing inside validate_project_info, with its message
C13_Witness ==
    /\ call = "validate_project_info"
    /\ "validate_project_roles" \in Range(result.calls)
    /\ ~result.ok
    /\ \E i \in 1..Len(result.msgs) :
           result.msgs[i] = Msg("Each role must have a name and a description!", <<>>)

====
